---- MODULE Spec2Model ----
(***************************************************************************)
(* BookVision: the OCR / text-extraction pipeline (utils/ocr.py), the      *)
(* summarizer (utils/summary.py), the sentiment scorer                     *)
(* (utils/sentiment.py), the exporters (utils/export.py) and the upload    *)
(* handler (app.py).                                                       *)
(*                                                                         *)
(* A text is a sequence of tokens.  A token is a one-character string, or  *)
(* a fixed literal of the program (an error marker, a sentinel) kept as    *)
(* one token.  Whitespace tokens are " " and "\n".                         *)
(***************************************************************************)
EXTENDS Integers, Sequences, FiniteSets, TLC

(***************************************************************************)
(* Bounds of the model.                                                    *)
(***************************************************************************)
MaxPages == 3

\* Longest text handed to generate_summary.
MaxTextLen == 9

\* utils/summary.py sets MAX_CHUNK_SIZE_TOKENS to 1024; the model scales it so
\* that texts of MaxTextLen tokens span several chunks.
MAX_CHUNK_SIZE_TOKENS == 1

(***************************************************************************)
(* Python string operations used by the program.                           *)
(***************************************************************************)
Whitespace == {" ", "\n"}

IsBlank(s) == \A k \in 1..Len(s) : s[k] \in Whitespace

RECURSIVE LStrip(_)
LStrip(s) ==
    IF s = <<>> THEN <<>>
    ELSE IF Head(s) \in Whitespace THEN LStrip(Tail(s)) ELSE s

RECURSIVE RStrip(_)
RStrip(s) ==
    IF s = <<>> THEN <<>>
    ELSE IF s[Len(s)] \in Whitespace THEN RStrip(SubSeq(s, 1, Len(s) - 1)) ELSE s

Strip(s) == RStrip(LStrip(s))

Contains(s, tok) == \E k \in 1..Len(s) : s[k] = tok

Count(s, tok) == Cardinality({k \in 1..Len(s) : s[k] = tok})

Min(a, b) == IF a <= b THEN a ELSE b

\* str.split() without arguments: the maximal runs of non-whitespace.
RECURSIVE SplitFrom(_, _, _)
SplitFrom(s, word, words) ==
    IF s = <<>>
    THEN IF word = <<>> THEN words ELSE Append(words, word)
    ELSE IF Head(s) \in Whitespace
         THEN SplitFrom(Tail(s), <<>>,
                        IF word = <<>> THEN words ELSE Append(words, word))
         ELSE SplitFrom(Tail(s), Append(word, Head(s)), words)

Split(s) == SplitFrom(s, <<>>, <<>>)

\* sep.join(parts)
RECURSIVE Join(_, _)
Join(sep, parts) ==
    IF parts = <<>> THEN <<>>
    ELSE IF Len(parts) = 1 THEN parts[1]
    ELSE parts[1] \o sep \o Join(sep, Tail(parts))

RECURSIVE Concat(_)
Concat(ss) == IF ss = <<>> THEN <<>> ELSE Head(ss) \o Concat(Tail(ss))

(***************************************************************************)
(* Exceptions.  Every exception an external call raises is an instance of  *)
(* Exception; pytesseract raises TesseractError for an engine failure and  *)
(* RuntimeError for a timeout.                                             *)
(***************************************************************************)
ExceptionKinds == {"TesseractError", "RuntimeError", "OSError"}

CatchesNothing(e) == FALSE

CatchesOnlyTesseractError(e) == e = "TesseractError"

(***************************************************************************)
(* utils/ocr.py : extract_text_from_pdf                                    *)
(***************************************************************************)
ErrorMarker(n) == "[Error processing page " \o ToString(n) \o "]"

OCR_FAILED_TEXT == <<"[OCR failed for this page]">>

PDF_ERROR_TEXT == <<"Error extracting text from PDF.">>

\* What a page's text layer, or the OCR engine, can yield.
PageTexts ==
    { <<>>, <<" ">>, <<"a">>, <<" ", "a">>, <<"a", "\n">>, <<ErrorMarker(1)>> }

\* except Exception as page_e (the per-page handler)
PageHandlerCatches(e) == e \in ExceptionKinds

\* except Exception as e (the document handler)
DocHandlerCatches(e) == e \in ExceptionKinds

VARIABLES
    summarizer,     \* utils/summary.py: the pipeline, or "None"
    analyzer,       \* utils/sentiment.py: the VADER analyzer, or "None"
    op,             \* the core operation being executed
    pc,             \* its position: "idle", a label, "returned" or "raised"
    ret,            \* its return value
    doc,            \* fitz.open's result: "Document", or "None" before it
    num_pages,      \* len(doc)
    page_num,       \* pages handled so far
    full_text,
    page_log,       \* per page: what happened to it
    img_cv,         \* cv2.imread's result: "ndarray", "None", or "unset"
    first_exc,      \* the exception that left the main try block, or "none"
    ocr_calls,      \* the image_to_string calls made, in order
    text,           \* the argument of generate_summary / get_sentiment
    normalized_text,
    char_chunks,
    summary_parts,
    chunk_log,      \* per summarizer call: what it did
    blob_sentiment, \* <<polarity>> once TextBlob returned, else <<>>
    vader_compound_sentiment,
    scorer_calls,   \* the polarity scorers invoked
    export_args,    \* the exporter's extracted_text, summary, sentiment
    saved_file,     \* what the exporter wrote at `filename`, or "none"
    uploads,        \* the files of UPLOAD_FOLDER: name -> content, or "absent"
    results,        \* the files of RESULT_FOLDER: name -> artifact, or NoArtifact
    req             \* the POST requests being handled, each with its locals

vars == <<summarizer, analyzer, op, pc, ret, doc, num_pages, page_num, full_text,
          page_log, img_cv, first_exc, ocr_calls, text, normalized_text,
          char_chunks, summary_parts, chunk_log, blob_sentiment,
          vader_compound_sentiment, scorer_calls, export_args, saved_file,
          uploads, results, req>>

engines == <<summarizer, analyzer>>

pdfVars == <<doc, num_pages, page_num, full_text, page_log>>

imgVars == <<img_cv, first_exc, ocr_calls>>

sumVars == <<normalized_text, char_chunks, summary_parts, chunk_log>>

sentVars == <<blob_sentiment, vader_compound_sentiment, scorer_calls>>

expVars == <<export_args, saved_file>>

appVars == <<uploads, results, req>>

notPdf == <<imgVars, text, sumVars, sentVars, expVars, appVars>>

notImg == <<pdfVars, text, sumVars, sentVars, expVars, appVars>>

notSum == <<pdfVars, imgVars, sentVars, expVars, appVars>>

notSent == <<pdfVars, imgVars, sumVars, expVars, appVars>>

notExp == <<pdfVars, imgVars, text, sumVars, sentVars, appVars>>

CanCall == pc = "idle"

ImgFresh ==
    /\ img_cv' = "unset"
    /\ first_exc' = "none"
    /\ ocr_calls' = <<>>

PdfFresh ==
    /\ doc' = "None"
    /\ num_pages' = 0
    /\ page_num' = 0
    /\ full_text' = <<>>
    /\ page_log' = <<>>

SumFresh ==
    /\ normalized_text' = <<>>
    /\ char_chunks' = <<>>
    /\ summary_parts' = <<>>
    /\ chunk_log' = <<>>

SentFresh ==
    /\ blob_sentiment' = <<>>
    /\ vader_compound_sentiment' = <<>>
    /\ scorer_calls' = {}

ExpFresh ==
    /\ export_args' = <<>>
    /\ saved_file' = "none"

\* The caller takes the returned value; the operation's locals are gone.
CallerResumes ==
    /\ pc = "returned"
    /\ pc' = "idle"
    /\ op' = "none"
    /\ ret' = <<>>
    /\ PdfFresh
    /\ ImgFresh
    /\ text' = <<>>
    /\ SumFresh
    /\ SentFresh
    /\ ExpFresh
    /\ UNCHANGED <<engines, appVars>>

(***************************************************************************)
(* app.py : the files and requests of the upload handler.                  *)
(***************************************************************************)
Requests == {"r1", "r2"}

\* file.filename as the client sent it: a directory prefix, a stem, an extension.
RawFilenames ==
    { [dir |-> "",    stem |-> "x", ext |-> "pdf"],
      [dir |-> "../", stem |-> "x", ext |-> "pdf"],
      [dir |-> "",    stem |-> "x", ext |-> "png"],
      [dir |-> "",    stem |-> "x", ext |-> "txt"] }

NoFilename == [dir |-> "", stem |-> "", ext |-> ""]

\* werkzeug's secure_filename: the directory part does not survive.
secure_filename(f) == f.stem \o "." \o f.ext

ALLOWED_EXTENSIONS_IMAGES == {"png", "jpg", "jpeg", "gif", "bmp", "tiff"}

ALLOWED_EXTENSIONS_PDF == {"pdf"}

AllowsAnyFile(f, allowed_extensions) == TRUE

\* '.' in filename and filename.rsplit('.', 1)[1].lower() in allowed_extensions
allowed_file(f, allowed_extensions) == f.ext \in allowed_extensions

\* os.path.join(app.config['UPLOAD_FOLDER'], filename), relative to the folder
UploadPathByStem(f) == f.stem

UploadPath(f) == secure_filename(f)

\* secure_filename(os.path.splitext(filename)[0]) + '.pdf' / '.docx'
OutputName(f, convert_format) == f.stem \o "." \o convert_format

UploadNames == {secure_filename(f) : f \in RawFilenames} \cup {UploadPathByStem(f) : f \in RawFilenames}

ResultNames == {OutputName(f, c) : f \in RawFilenames, c \in {"pdf", "docx"}}

\* What an uploaded file holds, and the text an extractor reads from it.
Contents == {"A", "B", "blank"}

TextOf(c) == IF c = "A" THEN <<"a">> ELSE IF c = "B" THEN <<"b">> ELSE <<>>

\* request.form.get('convert')
ConvertFormats == {"None", "none", "pdf", "docx", "txt"}

\* No file under a name of RESULT_FOLDER (a written artifact has a summary).
NoArtifact == [extracted_text |-> <<>>, summary |-> <<>>, sentiment |-> <<>>]

NewRequest ==
    [pc |-> "start", filename |-> NoFilename, content |-> "none",
     convert_format |-> "None", extracted |-> FALSE, text_content |-> <<>>,
     summary_content |-> <<>>, sentiment_content |-> <<>>,
     download_path |-> "None", invoked |-> {}, exported |-> "not called",
     removal |-> "not tried"]

Init ==
    /\ summarizer \in {"pipeline", "None"}
    /\ analyzer \in {"SentimentIntensityAnalyzer", "None"}
    /\ op = "none"
    /\ pc = "idle"
    /\ ret = <<>>
    /\ doc = "None"
    /\ num_pages = 0
    /\ page_num = 0
    /\ full_text = <<>>
    /\ page_log = <<>>
    /\ img_cv = "unset"
    /\ first_exc = "none"
    /\ ocr_calls = <<>>
    /\ text = <<>>
    /\ normalized_text = <<>>
    /\ char_chunks = <<>>
    /\ summary_parts = <<>>
    /\ chunk_log = <<>>
    /\ blob_sentiment = <<>>
    /\ vader_compound_sentiment = <<>>
    /\ scorer_calls = {}
    /\ export_args = <<>>
    /\ saved_file = "none"
    /\ uploads = [n \in UploadNames |-> "absent"]
    /\ results = [n \in ResultNames |-> NoArtifact]
    /\ req = [r \in Requests |-> NewRequest]

\* An exception e leaves extract_text_from_pdf's outer try block.
PdfDocRaise(e) ==
    IF DocHandlerCatches(e)
    THEN /\ pc' = "returned"
         /\ ret' = PDF_ERROR_TEXT
    ELSE /\ pc' = "raised"
         /\ ret' = <<>>

\* fitz.open(pdf_path) and len(doc)
ExtractTextFromPdfCall ==
    /\ CanCall
    /\ op' = "extract_text_from_pdf"
    /\ \/ /\ doc' = "Document"
          /\ \E n \in 0..MaxPages : num_pages' = n
          /\ pc' = "pdf_loop"
          /\ ret' = <<>>
          /\ page_num' = 0
          /\ full_text' = <<>>
          /\ page_log' = <<>>
       \/ /\ \E e \in ExceptionKinds : PdfDocRaise(e)
          /\ PdfFresh
    /\ UNCHANGED <<engines, notPdf>>

\* The page's iteration ends normally: full_text += page_text_content + "\n"
PdfAppend(entry) ==
    /\ full_text' = full_text \o entry.text \o <<"\n">>
    /\ page_log' = Append(page_log, entry)
    /\ page_num' = page_num + 1
    /\ UNCHANGED <<pc, ret>>

\* The page number a log line or a marker shows: page_num+1
PageNumberZeroBased(p) == p

PageNumber(p) == p + 1

\* An exception e is raised inside the page's try block after `ocr` OCR calls.
PdfPageRaise(e, blank, ocr) ==
    IF PageHandlerCatches(e)
    THEN /\ full_text' = full_text \o <<ErrorMarker(PageNumber(page_num)), "\n">>
         /\ page_log' = Append(page_log,
                [raised |-> TRUE, embedded_blank |-> blank, null_image |-> FALSE,
                 ocr |-> ocr, text |-> <<>>])
         /\ page_num' = page_num + 1
         /\ UNCHANGED <<pc, ret>>
    ELSE /\ PdfDocRaise(e)
         /\ UNCHANGED <<full_text, page_log, page_num>>

\* if not page_text_content.strip(): the page goes to OCR
NeedsOcrAlways(page_text_content) == TRUE

NeedsOcr(page_text_content) == IsBlank(page_text_content)

\* One iteration of `for page_num in range(len(doc))`.
PdfPage ==
    /\ pc = "pdf_loop"
    /\ page_num < num_pages
    /\ \/ \* doc.load_page or page.get_text raises
          \E e \in ExceptionKinds : PdfPageRaise(e, FALSE, 0)
       \/ \* the text layer is not blank: it is used as is
          \E t \in PageTexts :
             /\ ~NeedsOcr(t)
             /\ PdfAppend([raised |-> FALSE, embedded_blank |-> IsBlank(t),
                           null_image |-> FALSE, ocr |-> 0, text |-> t])
       \/ \* blank text layer; get_pixmap, tobytes, frombuffer or imdecode raises
          \E emb \in PageTexts, e \in ExceptionKinds :
             /\ NeedsOcr(emb)
             /\ PdfPageRaise(e, IsBlank(emb), 0)
       \/ \* blank text layer; cv2.imdecode returns None
          \E emb \in PageTexts :
             /\ NeedsOcr(emb)
             /\ PdfAppend([raised |-> FALSE, embedded_blank |-> IsBlank(emb),
                           null_image |-> TRUE, ocr |-> 0, text |-> OCR_FAILED_TEXT])
       \/ \* blank text layer; image_to_string(timeout=60) raises
          \E emb \in PageTexts, e \in ExceptionKinds :
             /\ NeedsOcr(emb)
             /\ PdfPageRaise(e, IsBlank(emb), 1)
       \/ \* blank text layer; image_to_string(timeout=60) returns
          \E emb \in PageTexts, t \in PageTexts :
             /\ NeedsOcr(emb)
             /\ PdfAppend([raised |-> FALSE, embedded_blank |-> IsBlank(emb),
                           null_image |-> FALSE, ocr |-> 1, text |-> t])
    /\ UNCHANGED <<engines, op, doc, num_pages, notPdf>>

\* return full_text.strip()
PdfReturn ==
    /\ pc = "pdf_loop"
    /\ page_num = num_pages
    /\ ret' = Strip(full_text)
    /\ pc' = "returned"
    /\ UNCHANGED <<engines, op, pdfVars, notPdf>>

ExtractTextFromPdf == ExtractTextFromPdfCall \/ PdfPage \/ PdfReturn



(***************************************************************************)
(* utils/ocr.py : extract_text_from_image                                  *)
(***************************************************************************)
TESSERACT_ERROR_TEXT == <<"Error during Tesseract OCR processing.">>

IMAGE_ERROR_TEXT == <<"Error extracting text from image after multiple attempts.">>

\* image_to_string's timeout arguments; NoTimeout stands for the call without one.
NoTimeout == 0

IMAGE_OCR_TIMEOUT == 30

\* What image_to_string can raise: RuntimeError is its timeout.
OcrExceptions(timeout) ==
    IF timeout = NoTimeout THEN ExceptionKinds \ {"RuntimeError"} ELSE ExceptionKinds

\* What cv2 and PIL calls can raise.
LibraryExceptions == ExceptionKinds \ {"TesseractError"}

OcrCall(image, timeout) == [image |-> image, timeout |-> timeout]

\* except pytesseract.TesseractError as te
TesseractHandlerCatches(e) == e = "TesseractError"

\* except Exception as e
GeneralHandlerCatches(e) == e \in ExceptionKinds

\* except Exception as pil_e (inside the general handler)
FallbackHandlerCatches(e) == e \in ExceptionKinds

\* img_cv = cv2.imread(image_path)
ExtractTextFromImageCall ==
    /\ CanCall
    /\ op' = "extract_text_from_image"
    /\ ret' = <<>>
    /\ ocr_calls' = <<>>
    /\ \/ /\ img_cv' = "None"
          /\ first_exc' = "none"
          /\ pc' = "img_pil"
       \/ /\ img_cv' = "ndarray"
          /\ first_exc' = "none"
          /\ pc' = "img_preprocess"
       \/ /\ img_cv' = "unset"
          /\ \E e \in LibraryExceptions : first_exc' = e
          /\ pc' = "img_except"
    /\ UNCHANGED <<engines, notImg>>

\* img_cv is None: Image.open, then image_to_string(image, lang) without timeout
ImgPilBranch ==
    /\ pc = "img_pil"
    /\ \/ \* Image.open raises
          /\ \E e \in LibraryExceptions : first_exc' = e
          /\ pc' = "img_except"
          /\ UNCHANGED <<ret, ocr_calls>>
       \/ \* image_to_string raises
          /\ ocr_calls' = Append(ocr_calls, OcrCall("raw", NoTimeout))
          /\ \E e \in OcrExceptions(NoTimeout) : first_exc' = e
          /\ pc' = "img_except"
          /\ UNCHANGED ret
       \/ \* image_to_string returns
          /\ ocr_calls' = Append(ocr_calls, OcrCall("raw", NoTimeout))
          /\ \E t \in PageTexts : ret' = t
          /\ pc' = "returned"
          /\ UNCHANGED first_exc
    /\ UNCHANGED <<engines, op, notImg, img_cv>>

\* cvtColor, threshold, fromarray, then image_to_string(pil_img, lang, timeout=30)
ImgPreprocessBranch ==
    /\ pc = "img_preprocess"
    /\ \/ \* the preprocessing raises
          /\ \E e \in LibraryExceptions : first_exc' = e
          /\ pc' = "img_except"
          /\ UNCHANGED <<ret, ocr_calls>>
       \/ \* image_to_string raises
          /\ ocr_calls' = Append(ocr_calls, OcrCall("preprocessed", IMAGE_OCR_TIMEOUT))
          /\ \E e \in OcrExceptions(IMAGE_OCR_TIMEOUT) : first_exc' = e
          /\ pc' = "img_except"
          /\ UNCHANGED ret
       \/ \* image_to_string returns
          /\ ocr_calls' = Append(ocr_calls, OcrCall("preprocessed", IMAGE_OCR_TIMEOUT))
          /\ \E t \in PageTexts : ret' = t
          /\ pc' = "returned"
          /\ UNCHANGED first_exc
    /\ UNCHANGED <<engines, op, notImg, img_cv>>

\* The fallback inside the general handler: Image.open, then
\* image_to_string(image, lang, timeout=30); any exception gives the fixed text.
ImgFallback ==
    \/ \* Image.open raises
       /\ \E e \in LibraryExceptions :
             IF FallbackHandlerCatches(e)
             THEN pc' = "returned" /\ ret' = IMAGE_ERROR_TEXT
             ELSE pc' = "raised" /\ ret' = <<>>
       /\ UNCHANGED ocr_calls
    \/ \* image_to_string raises
       /\ ocr_calls' = Append(ocr_calls, OcrCall("raw", IMAGE_OCR_TIMEOUT))
       /\ \E e \in OcrExceptions(IMAGE_OCR_TIMEOUT) :
             IF FallbackHandlerCatches(e)
             THEN pc' = "returned" /\ ret' = IMAGE_ERROR_TEXT
             ELSE pc' = "raised" /\ ret' = <<>>
    \/ \* image_to_string returns
       /\ ocr_calls' = Append(ocr_calls, OcrCall("raw", IMAGE_OCR_TIMEOUT))
       /\ \E t \in PageTexts : ret' = t
       /\ pc' = "returned"

\* The except clauses of the main try block, in their order.
ImgExcept ==
    /\ pc = "img_except"
    /\ IF TesseractHandlerCatches(first_exc)
       THEN /\ ret' = TESSERACT_ERROR_TEXT
            /\ pc' = "returned"
            /\ UNCHANGED ocr_calls
       ELSE IF GeneralHandlerCatches(first_exc)
            THEN ImgFallback
            ELSE /\ pc' = "raised"
                 /\ UNCHANGED <<ret, ocr_calls>>
    /\ UNCHANGED <<engines, op, notImg, img_cv, first_exc>>

ExtractTextFromImage ==
    ExtractTextFromImageCall \/ ImgPilBranch \/ ImgPreprocessBranch \/ ImgExcept


(***************************************************************************)
(* utils/summary.py : generate_summary                                     *)
(***************************************************************************)
SUMMARY_UNAVAILABLE_TEXT == <<"Summary generation service is currently unavailable.">>

NO_CONTENT_TEXT == <<"No content to summarize.">>

COULD_NOT_PROCESS_TEXT == <<"Could not process text for summarization.">>

COULD_NOT_GENERATE_TEXT == <<"Could not generate a summary for the provided text.">>

SummaryErrorMarker(i) == "[Error summarizing part " \o ToString(i) \o "]"

\* MAX_CHUNK_SIZE_TOKENS * 4
ChunkSize == MAX_CHUNK_SIZE_TOKENS * 4

\* The texts generate_summary is called with.
SummaryInputs == UNION {[1..n -> {"a", " "}] : n \in 0..MaxTextLen}

\* What the model can return as result[0]['summary_text'].
SummaryTexts == { <<"s">>, <<" ", "s">>, <<>> }

\* if summarizer is None
SummarizerIsNeverNone == FALSE

SummarizerIsNone == summarizer = "None"

\* " ".join(text.split())
Normalize(t) == Join(<<" ">>, Split(t))

\* normalized_text[i:i + MAX_CHUNK_SIZE_TOKENS * 4], i counted from 0
ChunkSliceShort(t, i) == SubSeq(t, i + 1, Min(i + ChunkSize - 1, Len(t)))

ChunkSlice(t, i) == SubSeq(t, i + 1, Min(i + ChunkSize, Len(t)))

\* for i in range(0, len(normalized_text), MAX_CHUNK_SIZE_TOKENS * 4)
CharChunks(t) ==
    [k \in 1..((Len(t) + ChunkSize - 1) \div ChunkSize) |->
        ChunkSlice(t, (k - 1) * ChunkSize)]

\* The part number a log line or a placeholder shows: i+1
PartNumberZeroBased(i) == i

PartNumber(i) == i + 1

\* return final_summary if final_summary else "Could not generate a summary ..."
SummaryAsIs(final_summary) == final_summary

SummaryOrSentinel(final_summary) ==
    IF final_summary # <<>> THEN final_summary ELSE COULD_NOT_GENERATE_TEXT

\* except Exception as e (around one chunk's summarizer call)
ChunkHandlerCatches(e) == e \in ExceptionKinds

GenerateSummaryCall ==
    /\ CanCall
    /\ op' = "generate_summary"
    /\ \E t \in SummaryInputs :
          /\ text' = t
          /\ IF SummarizerIsNone
             THEN /\ ret' = SUMMARY_UNAVAILABLE_TEXT
                  /\ pc' = "returned"
                  /\ SumFresh
             ELSE IF IsBlank(t)
             THEN /\ ret' = NO_CONTENT_TEXT
                  /\ pc' = "returned"
                  /\ SumFresh
             ELSE /\ normalized_text' = Normalize(t)
                  /\ char_chunks' = CharChunks(Normalize(t))
                  /\ summary_parts' = <<>>
                  /\ chunk_log' = <<>>
                  /\ IF CharChunks(Normalize(t)) = <<>>
                     THEN ret' = COULD_NOT_PROCESS_TEXT /\ pc' = "returned"
                     ELSE ret' = <<>> /\ pc' = "sum_loop"
    /\ UNCHANGED <<engines, notSum>>

\* One iteration of `for i, chunk in enumerate(char_chunks)`.
SummarizeChunk ==
    /\ pc = "sum_loop"
    /\ Len(chunk_log) < Len(char_chunks)
    /\ \/ \* the summarizer call raises
          \E e \in ExceptionKinds :
             IF ChunkHandlerCatches(e)
             THEN /\ summary_parts' =
                        Append(summary_parts,
                               <<SummaryErrorMarker(PartNumber(Len(chunk_log)))>>)
                  /\ chunk_log' = Append(chunk_log, [outcome |-> "raised", summary |-> <<>>])
                  /\ UNCHANGED <<pc, ret>>
             ELSE /\ pc' = "raised"
                  /\ UNCHANGED <<ret, summary_parts, chunk_log>>
       \/ \* it returns a list whose first entry has 'summary_text'
          \E t \in SummaryTexts :
             /\ summary_parts' = Append(summary_parts, t)
             /\ chunk_log' = Append(chunk_log, [outcome |-> "summary", summary |-> t])
             /\ UNCHANGED <<pc, ret>>
       \/ \* it returns something else: the chunk is skipped with a warning
          /\ chunk_log' = Append(chunk_log, [outcome |-> "unexpected", summary |-> <<>>])
          /\ UNCHANGED <<pc, ret, summary_parts>>
    /\ UNCHANGED <<engines, op, notSum, text, normalized_text, char_chunks>>

\* final_summary = "\n".join(summary_parts).strip()
SummaryReturn ==
    /\ pc = "sum_loop"
    /\ Len(chunk_log) = Len(char_chunks)
    /\ ret' = SummaryOrSentinel(Strip(Join(<<"\n">>, summary_parts)))
    /\ pc' = "returned"
    /\ UNCHANGED <<engines, op, notSum, text, sumVars>>

GenerateSummary == GenerateSummaryCall \/ SummarizeChunk \/ SummaryReturn


(***************************************************************************)
(* utils/sentiment.py : get_sentiment                                      *)
(*                                                                         *)
(* A polarity is an integer number of two-hundredths: 10 stands for 0.05,  *)
(* 100 for 0.5.  The polarities drawn are even, so their average is exact. *)
(***************************************************************************)
SENTIMENT_POSITIVE == <<"Positive">>

SENTIMENT_NEGATIVE == <<"Negative">>

SENTIMENT_NEUTRAL == <<"Neutral">>

SENTIMENT_ERROR_TEXT == <<"Error in sentiment analysis">>

\* The literal 0.05 of the comparisons.
SENTIMENT_THRESHOLD == 10

\* What a scorer can return: around both thresholds, 0.0 and +-0.5.
Polarities == {-100, -12, -10, -8, 0, 8, 10, 12, 100}

SentimentInputs == { <<>>, <<" ">>, <<"\n", " ">>, <<"a">>, <<" ", "a">> }

\* if s >= 0.05: Positive; elif s <= -0.05: Negative; else: Neutral
ClassifyStrict(s) ==
    IF s > SENTIMENT_THRESHOLD THEN SENTIMENT_POSITIVE
    ELSE IF s < -SENTIMENT_THRESHOLD THEN SENTIMENT_NEGATIVE
    ELSE SENTIMENT_NEUTRAL

Classify(s) ==
    IF s >= SENTIMENT_THRESHOLD THEN SENTIMENT_POSITIVE
    ELSE IF s <= -SENTIMENT_THRESHOLD THEN SENTIMENT_NEGATIVE
    ELSE SENTIMENT_NEUTRAL

\* (blob_sentiment + vader_compound_sentiment) / 2
Average(b, v) == (b + v) \div 2

\* except Exception (both try blocks of get_sentiment)
SentimentHandlerCatches(e) == e \in ExceptionKinds

SentimentRaise(e) ==
    IF SentimentHandlerCatches(e)
    THEN pc' = "returned" /\ ret' = SENTIMENT_ERROR_TEXT
    ELSE pc' = "raised" /\ ret' = <<>>

\* get_sentiment has no loop: the whole call is one step.
GetSentiment ==
    /\ CanCall
    /\ op' = "get_sentiment"
    /\ \E t \in SentimentInputs :
          /\ text' = t
          /\ IF IsBlank(t)
             THEN /\ ret' = SENTIMENT_NEUTRAL
                  /\ pc' = "returned"
                  /\ SentFresh
             ELSE IF analyzer = "None"
             THEN \/ \* TextBlob raises
                     /\ \E e \in ExceptionKinds : SentimentRaise(e)
                     /\ scorer_calls' = {"TextBlob"}
                     /\ blob_sentiment' = <<>>
                     /\ vader_compound_sentiment' = <<>>
                  \/ \* TextBlob alone decides
                     \E b \in Polarities :
                        /\ scorer_calls' = {"TextBlob"}
                        /\ blob_sentiment' = <<b>>
                        /\ vader_compound_sentiment' = <<>>
                        /\ ret' = Classify(b)
                        /\ pc' = "returned"
             ELSE \/ \* TextBlob raises
                     /\ \E e \in ExceptionKinds : SentimentRaise(e)
                     /\ scorer_calls' = {"TextBlob"}
                     /\ blob_sentiment' = <<>>
                     /\ vader_compound_sentiment' = <<>>
                  \/ \* analyzer.polarity_scores raises
                     /\ \E e \in ExceptionKinds : SentimentRaise(e)
                     /\ scorer_calls' = {"TextBlob", "VADER"}
                     /\ \E b \in Polarities : blob_sentiment' = <<b>>
                     /\ vader_compound_sentiment' = <<>>
                  \/ \* both return: the average decides
                     \E b \in Polarities, v \in Polarities :
                        /\ scorer_calls' = {"TextBlob", "VADER"}
                        /\ blob_sentiment' = <<b>>
                        /\ vader_compound_sentiment' = <<v>>
                        /\ ret' = Classify(Average(b, v))
                        /\ pc' = "returned"
    /\ UNCHANGED <<engines, notSent>>

(***************************************************************************)
(* utils/export.py : save_as_docx, save_as_pdf                             *)
(***************************************************************************)
\* The texts handed to an exporter; the token "U+20AC" is the euro sign, which
\* latin-1 cannot encode.
ExportTexts == { <<"a">>, <<"a", "\n", "b">>, <<"U+20AC">> }

\* s.encode('latin-1', 'replace').decode('latin-1')
Latin1Replace(s) == [k \in 1..Len(s) |-> IF s[k] = "U+20AC" THEN "?" ELSE s[k]]

\* except Exception as e (the exporters' handlers)
DocxHandlerCatches(e) == e \in ExceptionKinds

PdfExportHandlerCatches(e) == e \in ExceptionKinds

\* save_as_docx: the document is built, then doc.save(filename)
SaveAsDocx ==
    /\ CanCall
    /\ op' = "save_as_docx"
    /\ \E x \in ExportTexts, y \in ExportTexts :
          /\ export_args' = <<x, y, SENTIMENT_NEUTRAL>>
          /\ \/ \* Document(), add_heading, add_paragraph or doc.save raises
                /\ \E e \in ExceptionKinds :
                      IF DocxHandlerCatches(e)
                      THEN pc' = "returned" /\ ret' = FALSE
                      ELSE pc' = "raised" /\ ret' = <<>>
                /\ saved_file' = "none"
             \/ \* the file is written
                /\ saved_file' =
                      [format |-> "docx", extracted_text |-> x, summary |-> y,
                       sentiment |-> SENTIMENT_NEUTRAL]
                /\ ret' = TRUE
                /\ pc' = "returned"
    /\ UNCHANGED <<engines, notExp>>

\* save_as_pdf: the texts are re-encoded, rendered, then pdf.output(filename, "F")
SaveAsPdf ==
    /\ CanCall
    /\ op' = "save_as_pdf"
    /\ \E x \in ExportTexts, y \in ExportTexts :
          /\ export_args' = <<x, y, SENTIMENT_NEUTRAL>>
          /\ \/ \* FPDF(), set_font, cell, multi_cell or pdf.output raises
                /\ \E e \in ExceptionKinds :
                      IF PdfExportHandlerCatches(e)
                      THEN pc' = "returned" /\ ret' = FALSE
                      ELSE pc' = "raised" /\ ret' = <<>>
                /\ saved_file' = "none"
             \/ \* the file is written
                /\ saved_file' =
                      [format |-> "pdf", extracted_text |-> Latin1Replace(x),
                       summary |-> Latin1Replace(y),
                       sentiment |-> Latin1Replace(SENTIMENT_NEUTRAL)]
                /\ ret' = TRUE
                /\ pc' = "returned"
    /\ UNCHANGED <<engines, notExp>>

(***************************************************************************)
(* Properties of generate_summary.                                         *)
(***************************************************************************)
SummaryCalled == op = "generate_summary"

SummaryReturned == SummaryCalled /\ pc = "returned"

ChunkRaised(k) == chunk_log[k].outcome = "raised"

\* What chunk k owes the summary: its placeholder, its summary text, or nothing.
RECURSIVE ExpectedParts(_)
ExpectedParts(k) ==
    IF k = 0 THEN <<>>
    ELSE IF chunk_log[k].outcome = "raised"
         THEN Append(ExpectedParts(k - 1), <<SummaryErrorMarker(k)>>)
    ELSE IF chunk_log[k].outcome = "summary"
         THEN Append(ExpectedParts(k - 1), chunk_log[k].summary)
    ELSE ExpectedParts(k - 1)

\* C5: the chunking law.  The chunks of the whitespace-normalized text
\* concatenate, in order, to exactly that text; every chunk is non-empty, every
\* chunk but the last has exactly MAX_CHUNK_SIZE_TOKENS*4 tokens, and the last
\* has at most that many.
C5_ChunkingLaw ==
    SummaryCalled =>
        /\ Concat(char_chunks) = normalized_text
        /\ \A k \in 1..Len(char_chunks) :
              /\ char_chunks[k] # <<>>
              /\ Len(char_chunks[k]) <= ChunkSize
              /\ k < Len(char_chunks) => Len(char_chunks[k]) = ChunkSize
        /\ (summarizer # "None" /\ ~IsBlank(text)) =>
              /\ Split(normalized_text) = Split(text)
              /\ char_chunks # <<>>

\* C5 witness: a text cut into three chunks, the last one shorter.
C5_Witness ==
    /\ SummaryCalled
    /\ Len(char_chunks) = 3
    /\ Len(char_chunks[3]) < ChunkSize
    /\ Contains(char_chunks[1], " ")

\* C6: a chunk whose summarizer call raises contributes the placeholder
\* "[Error summarizing part i]" (i counted from 1) and the loop goes on: no
\* exception leaves generate_summary, every chunk is attempted, and the result
\* is the per-chunk results, in chunk order, joined by newlines (and stripped
\* of leading and trailing whitespace, as the function returns it).
C6_ChunkFailureIsolation ==
    SummaryCalled =>
        /\ pc # "raised"
        /\ Len(chunk_log) <= Len(char_chunks)
        /\ summary_parts = ExpectedParts(Len(chunk_log))
        /\ (pc = "returned" /\ \E k \in 1..Len(chunk_log) : ChunkRaised(k)) =>
              /\ Len(chunk_log) = Len(char_chunks)
              /\ ret = Strip(Join(<<"\n">>, ExpectedParts(Len(chunk_log))))
              /\ \A k \in 1..Len(chunk_log) :
                    ChunkRaised(k) => Contains(ret, SummaryErrorMarker(k))

\* C6 witness: of three chunks the second raised, the others were summarized.
C6_Witness ==
    /\ SummaryReturned
    /\ Len(chunk_log) = 3
    /\ chunk_log[1].outcome = "summary"
    /\ ChunkRaised(2)
    /\ chunk_log[3].outcome = "summary"
    /\ ret = <<"s", "\n", SummaryErrorMarker(2), "\n", "s">>

SummarySentinels ==
    { SUMMARY_UNAVAILABLE_TEXT, NO_CONTENT_TEXT, COULD_NOT_PROCESS_TEXT,
      COULD_NOT_GENERATE_TEXT }

AllChunksRaised ==
    /\ chunk_log # <<>>
    /\ \A k \in 1..Len(chunk_log) : ChunkRaised(k)

\* C7 as claimed: when every chunk's summarization fails, or the input is
\* blank, the result is a fixed sentinel message ("No content to summarize."
\* for blank input with the backend loaded); the result is never empty.
C7_SentinelWhenAllFail ==
    SummaryReturned =>
        /\ ret # <<>>
        /\ (AllChunksRaised \/ IsBlank(text)) => ret \in SummarySentinels
        /\ (IsBlank(text) /\ summarizer # "None") => ret = NO_CONTENT_TEXT

\* C7 amended: generate_summary never returns the empty string.  Blank input
\* (backend loaded) gives "No content to summarize."; when no chunk contributes
\* any non-blank text (no call raised, and each returned an unexpected result or
\* a blank summary) the result is the fixed "Could not generate a summary for
\* the provided text."; but when every chunk's call raises, the result is the
\* placeholders "[Error summarizing part i]" joined by newlines, which is not a
\* fixed sentinel.
C7_NeverEmpty ==
    SummaryReturned =>
        /\ ret # <<>>
        /\ ~IsBlank(ret)
        /\ (IsBlank(text) /\ summarizer # "None") => ret = NO_CONTENT_TEXT
        /\ AllChunksRaised =>
              /\ ret = Join(<<"\n">>,
                            [k \in 1..Len(char_chunks) |-> <<SummaryErrorMarker(k)>>])
              /\ ret \notin SummarySentinels
        /\ (chunk_log # <<>> /\ \A k \in 1..Len(chunk_log) :
                ~ChunkRaised(k) /\ IsBlank(chunk_log[k].summary)) =>
              ret = COULD_NOT_GENERATE_TEXT

\* C7 witness: two chunks, both summarizer calls raised.
C7_Witness ==
    /\ SummaryReturned
    /\ Len(char_chunks) = 2
    /\ AllChunksRaised
    /\ ret = <<SummaryErrorMarker(1), "\n", SummaryErrorMarker(2)>>

\* C9: permanent degraded mode.  Once the summarizer failed to load, it stays
\* None whatever is called, the model is never invoked, and every
\* generate_summary call returns the fixed "unavailable" text at once.
C9_PermanentDegradedMode ==
    [][ summarizer = "None" =>
          /\ summarizer' = "None"
          /\ chunk_log' = <<>>
          /\ op' = "generate_summary" =>
                (pc' = "returned" /\ ret' = SUMMARY_UNAVAILABLE_TEXT) ]_vars

\* C9 witness: with the summarizer None, a call with a non-blank text returned
\* the "unavailable" text.
C9_Witness ==
    /\ SummaryReturned
    /\ summarizer = "None"
    /\ ~IsBlank(text)
    /\ Len(text) > ChunkSize
    /\ ret = SUMMARY_UNAVAILABLE_TEXT

(***************************************************************************)
(* Properties of extract_text_from_image.                                  *)
(***************************************************************************)
ImgReturned == op = "extract_text_from_image" /\ pc = "returned"

PrimaryRawCall == OcrCall("raw", NoTimeout)

PrimaryPreprocessedCall == OcrCall("preprocessed", IMAGE_OCR_TIMEOUT)

FallbackCall == OcrCall("raw", IMAGE_OCR_TIMEOUT)

\* C3 as claimed: (1) decode failed and the raw image was loaded: OCR is run
\* once, on the raw image, with no timeout; (2) decode succeeded and the OCR
\* call raised TesseractError: the fixed Tesseract text, no further OCR;
\* (3) decode succeeded and anything else was raised: exactly one more attempt
\* (raw image, 30 s), whose failure gives the fixed "multiple attempts" text.
C3_ThreeTiersAsClaimed ==
    ImgReturned =>
        /\ (img_cv = "None" /\ ocr_calls # <<>> /\ ocr_calls[1] = PrimaryRawCall) =>
              ocr_calls = <<PrimaryRawCall>>
        /\ (img_cv = "ndarray" /\ first_exc = "TesseractError") =>
              (ret = TESSERACT_ERROR_TEXT /\ ocr_calls = <<PrimaryPreprocessedCall>>)
        /\ (img_cv = "ndarray" /\ first_exc \notin {"none", "TesseractError"}) =>
              /\ Count(ocr_calls, FallbackCall) <= 1
              /\ ret # IMAGE_ERROR_TEXT =>
                    (ocr_calls # <<>> /\ ocr_calls[Len(ocr_calls)] = FallbackCall)

\* C3 amended: the first OCR attempt is on the raw image with no timeout when
\* the decode returned None, on the preprocessed image with a 30 s timeout when
\* it succeeded, and its text is returned when nothing raises.  In either tier a
\* TesseractError from the first attempt gives the fixed Tesseract text with no
\* further OCR, and any other exception of the main block (decode, loader,
\* preprocessing or OCR, the no-timeout OCR of tier 1 included) leads to exactly
\* one more attempt (generic loader, OCR with a 30 s timeout), whose failure
\* gives the fixed "multiple attempts" text.
C3_FallbackTiers ==
    ImgReturned =>
        /\ Len(ocr_calls) <= 2
        /\ first_exc = "none" =>
              /\ ret \in PageTexts
              /\ ocr_calls =
                    IF img_cv = "None" THEN <<PrimaryRawCall>>
                                       ELSE <<PrimaryPreprocessedCall>>
        /\ first_exc = "TesseractError" =>
              /\ ret = TESSERACT_ERROR_TEXT
              /\ ocr_calls \in {<<PrimaryRawCall>>, <<PrimaryPreprocessedCall>>}
        /\ first_exc \notin {"none", "TesseractError"} =>
              /\ Count(ocr_calls, FallbackCall) <= 1
              /\ \A k \in 1..(Len(ocr_calls) - 1) :
                    ocr_calls[k] =
                        IF img_cv = "None" THEN PrimaryRawCall
                                           ELSE PrimaryPreprocessedCall
              /\ \/ ret = IMAGE_ERROR_TEXT
                 \/ /\ ret \in PageTexts
                    /\ ocr_calls # <<>>
                    /\ ocr_calls[Len(ocr_calls)] = FallbackCall

\* C3 witness: the decode returned None, the no-timeout OCR raised something
\* other than TesseractError, and the 30 s fallback attempt returned text.
C3_Witness ==
    /\ ImgReturned
    /\ img_cv = "None"
    /\ first_exc = "OSError"
    /\ ocr_calls = <<PrimaryRawCall, FallbackCall>>
    /\ ret = <<"a">>

(***************************************************************************)
(* Properties of extract_text_from_pdf.                                    *)
(***************************************************************************)
PdfOpened == op = "extract_text_from_pdf" /\ doc = "Document"

PdfReturned == PdfOpened /\ pc = "returned"

\* The segment the loop owes page i: its resolved text, or its marker.
PageSegment(i) ==
    IF page_log[i].raised THEN <<ErrorMarker(i)>> ELSE page_log[i].text

PageSegments == [i \in 1..Len(page_log) |-> PageSegment(i) \o <<"\n">>]

IsInfix(t, s) ==
    \E k \in 0..(Len(s) - Len(t)) : SubSeq(s, k + 1, k + Len(t)) = t

\* Marker literals that the pages' own texts (text layer or OCR output) carry.
OwnTextCount(n) ==
    Count(Concat([i \in 1..Len(page_log) |->
                    IF page_log[i].raised THEN <<>> ELSE page_log[i].text]),
          ErrorMarker(n))

\* C1: page failures are isolated.  Once the document is open no exception
\* leaves extract_text_from_pdf, whatever subset of pages raises; every page is
\* handled; and the returned text is, in page order, each successful page's
\* resolved text and each failed page's marker "[Error processing page N]",
\* every one followed by a newline, the whole stripped of leading and trailing
\* whitespace (the function returns full_text.strip()).
C1_PageFailureIsolation ==
    PdfOpened =>
        /\ pc # "raised"
        /\ Len(page_log) = page_num
        /\ pc = "returned" =>
              /\ page_num = num_pages
              /\ ret = Strip(Concat(PageSegments))
              /\ \A i \in 1..num_pages :
                    IF page_log[i].raised
                    THEN Contains(ret, ErrorMarker(i))
                    ELSE IsInfix(Strip(page_log[i].text), ret)

\* C1 witness: three pages, page 2 raised, pages 1 and 3 gave text.
C1_Witness ==
    /\ PdfReturned
    /\ num_pages = 3
    /\ page_log[2].raised
    /\ ~page_log[1].raised /\ ~IsBlank(page_log[1].text)
    /\ ~page_log[3].raised /\ ~IsBlank(page_log[3].text)
    /\ ret = <<"a", "\n", ErrorMarker(2), "\n", "a">>

\* C2 as claimed: the result contains the marker of page N at most once, and
\* only when the processing of page N raised.
C2_MarkerOnlyWhenRaised ==
    PdfReturned =>
        \A n \in 1..MaxPages :
            /\ Count(ret, ErrorMarker(n)) <= 1
            /\ Contains(ret, ErrorMarker(n)) =>
                  (n <= Len(page_log) /\ page_log[n].raised)

\* C2 amended: the loop appends exactly one segment (page text or marker, then
\* one newline) per page, and appends the marker of page N at most once and
\* only when page N raised; every other occurrence of a marker literal in the
\* result is part of a page's own text (text layer or OCR output).
C2_OneSegmentPerPage ==
    PdfOpened =>
        /\ Len(page_log) = page_num
        /\ page_num <= num_pages
        /\ pc # "returned" => full_text = Concat(PageSegments)
        /\ pc = "returned" =>
              \A n \in 1..MaxPages :
                  Count(ret, ErrorMarker(n)) - OwnTextCount(n) =
                      IF n <= Len(page_log) /\ page_log[n].raised THEN 1 ELSE 0

\* C2 witness: a page raised and a later page's own text reads like a marker.
C2_Witness ==
    /\ PdfReturned
    /\ num_pages = 2
    /\ page_log[1].raised
    /\ ~page_log[2].raised
    /\ page_log[2].text = <<ErrorMarker(1)>>
    /\ Count(ret, ErrorMarker(1)) = 2


(***************************************************************************)
(* OCR attempts of the two extractors.                                     *)
(***************************************************************************)
PdfRunning == op = "extract_text_from_pdf" /\ doc = "Document"

ImgRunning == op = "extract_text_from_image"

RECURSIVE OcrTotal(_)
OcrTotal(log) == IF log = <<>> THEN 0 ELSE Head(log).ocr + OcrTotal(Tail(log))

\* C11: in extract_text_from_pdf every page handled so far has one log entry
\* with at most one OCR call; a page whose embedded text is not blank had no
\* OCR call and kept that text; a page whose image decoded to None had no OCR
\* call and its text is "[OCR failed for this page]"; a page whose OCR call
\* raised has that single call, no text, and its marker as its only segment
\* of full_text, so the calls made never exceed the pages handled.  In extract_text_from_image at most
\* two OCR calls are made, at most one of them the fallback's, which is last.
C11_OcrAttemptBound ==
    /\ PdfRunning =>
          /\ Len(page_log) = page_num
          /\ page_num <= num_pages
          /\ OcrTotal(page_log) <= page_num
          /\ \A i \in 1..Len(page_log) :
                LET p == page_log[i]
                IN  /\ p.ocr \in {0, 1}
                    /\ ~p.embedded_blank =>
                          /\ p.ocr = 0
                          /\ ~p.raised => ~IsBlank(p.text)
                    /\ p.null_image =>
                          (p.ocr = 0 /\ ~p.raised /\ p.text = OCR_FAILED_TEXT)
                    /\ p.raised => p.text = <<>>
          /\ full_text = Concat(PageSegments)
    /\ ImgRunning =>
          /\ Len(ocr_calls) <= 2
          /\ Count(ocr_calls, FallbackCall) <= 1
          /\ \A k \in 1..Len(ocr_calls) :
                ocr_calls[k] = FallbackCall => k = Len(ocr_calls)
          /\ Len(ocr_calls) = 2 => first_exc \notin {"none", "TesseractError"}

\* C11 witness: a three-page PDF returned; page 1 had embedded text and no OCR,
\* page 2's image decoded to None and had no OCR, page 3's single OCR call
\* raised and was not retried.
C11_Witness ==
    /\ PdfReturned
    /\ num_pages = 3
    /\ ~page_log[1].embedded_blank /\ page_log[1].ocr = 0
    /\ page_log[1].text = <<"a">>
    /\ page_log[2].null_image /\ page_log[2].ocr = 0
    /\ page_log[3].raised /\ page_log[3].ocr = 1
    /\ OcrTotal(page_log) = 1
    /\ ret = <<"a", "\n">> \o OCR_FAILED_TEXT \o <<"\n", ErrorMarker(3)>>

(***************************************************************************)
(* app.py : index (POST).  Requests are handled concurrently; a step of a  *)
(* request is one access to the shared folders with the code around it.    *)
(***************************************************************************)
\* extract_text_from_pdf(path) on the file found at path
PdfTextOfFile(file) == IF file = "absent" THEN PDF_ERROR_TEXT ELSE TextOf(file)

\* extract_text_from_image(path) on the file found at path
ImageTextOfFile(file) == IF file = "absent" THEN IMAGE_ERROR_TEXT ELSE TextOf(file)

\* generate_summary(text_content) and get_sentiment(text_content), as functions
\* of the text (deterministic decoding)
SummaryOf(t) == <<"summary of">> \o t

SentimentOf(t) == IF t = <<"a">> THEN SENTIMENT_POSITIVE ELSE SENTIMENT_NEUTRAL

Artifact(t) ==
    [extracted_text |-> t, summary |-> SummaryOf(t), sentiment |-> SentimentOf(t)]

coreVars ==
    <<summarizer, analyzer, op, pc, ret, pdfVars, imgVars, text, sumVars, sentVars,
      expVars>>

\* The request is read and file.save(path) stores the upload.
IndexSave(r) ==
    /\ req[r].pc = "start"
    /\ \/ \* no file part, or an empty filename: redirect
          /\ req' = [req EXCEPT ![r].pc = "redirected"]
          /\ UNCHANGED uploads
       \/ \E f \in RawFilenames, c \in Contents, cf \in ConvertFormats :
             \/ \* file.save raises: flash and redirect
                /\ req' = [req EXCEPT ![r].pc = "redirected", ![r].filename = f,
                                      ![r].convert_format = cf]
                /\ UNCHANGED uploads
             \/ /\ uploads' = [uploads EXCEPT ![UploadPath(f)] = c]
                /\ req' = [req EXCEPT ![r].pc = "saved", ![r].filename = f,
                                      ![r].content = c, ![r].convert_format = cf]
    /\ UNCHANGED <<coreVars, results>>

\* The extractor for the file's type reads the file now at path.
IndexExtract(r) ==
    /\ req[r].pc = "saved"
    /\ LET f == req[r].filename
           file == uploads[UploadPath(f)]
       IN  IF allowed_file(f, ALLOWED_EXTENSIONS_PDF)
           THEN LET t == PdfTextOfFile(file)
                IN  req' = [req EXCEPT ![r].text_content = t, ![r].extracted = TRUE,
                               ![r].pc = IF IsBlank(t) THEN "remove" ELSE "analyze"]
           ELSE IF allowed_file(f, ALLOWED_EXTENSIONS_IMAGES)
           THEN LET t == ImageTextOfFile(file)
                IN  req' = [req EXCEPT ![r].text_content = t, ![r].extracted = TRUE,
                               ![r].pc = IF IsBlank(t) THEN "remove" ELSE "analyze"]
           ELSE \* file_type_error
                req' = [req EXCEPT ![r].pc = "remove"]
    /\ UNCHANGED <<coreVars, uploads, results>>

\* if os.path.exists(path): os.remove(path); then redirect
IndexRemove(r) ==
    /\ req[r].pc = "remove"
    /\ LET path == UploadPath(req[r].filename)
       IN  IF uploads[path] = "absent"
           THEN \* os.path.exists(path) is False
                /\ req' = [req EXCEPT ![r].pc = "redirected", ![r].removal = "absent"]
                /\ UNCHANGED uploads
           ELSE \/ \* os.remove(path)
                   /\ uploads' = [uploads EXCEPT ![path] = "absent"]
                   /\ req' = [req EXCEPT ![r].pc = "redirected",
                                         ![r].removal = "removed"]
                \/ \* os.remove raises OSError: logged, the file stays
                   /\ req' = [req EXCEPT ![r].pc = "redirected",
                                         ![r].removal = "OSError"]
                   /\ UNCHANGED uploads
    /\ UNCHANGED <<coreVars, results>>

\* Summary, sentiment, the optional export, and the result view.
IndexAnalyzeAndExport(r) ==
    /\ req[r].pc = "analyze"
    /\ LET t == req[r].text_content
           cf == req[r].convert_format
           name == OutputName(req[r].filename, cf)
           exporter == IF cf = "pdf" THEN "save_as_pdf" ELSE "save_as_docx"
           analyzed == [req EXCEPT ![r].summary_content = SummaryOf(t),
                                   ![r].sentiment_content = SentimentOf(t),
                                   ![r].invoked = {"generate_summary", "get_sentiment"},
                                   ![r].pc = "rendered"]
           called == [analyzed EXCEPT ![r].invoked = @ \cup {exporter}]
       IN  IF cf \in {"pdf", "docx"}
           THEN \/ \* the exporter wrote the file and returned True
                   /\ results' = [results EXCEPT ![name] = Artifact(t)]
                   /\ req' = [called EXCEPT ![r].download_path = name,
                                            ![r].exported = "True"]
                \/ \* the exporter returned False
                   /\ req' = [called EXCEPT ![r].exported = "False"]
                   /\ UNCHANGED results
           ELSE \* convert absent, 'none', or neither 'pdf' nor 'docx'
                /\ req' = analyzed
                /\ UNCHANGED results
    /\ UNCHANGED <<coreVars, uploads>>

Index(r) ==
    IndexSave(r) \/ IndexExtract(r) \/ IndexRemove(r) \/ IndexAnalyzeAndExport(r)

NextApp == \E r \in Requests : Index(r)

\* The service with both engines loaded, before any request.
InitApp ==
    /\ Init
    /\ summarizer = "pipeline"
    /\ analyzer = "SentimentIntensityAnalyzer"

SpecApp == InitApp /\ [][NextApp]_vars

(***************************************************************************)
(* Property of concurrent uploads.                                         *)
(***************************************************************************)
\* The text the request's own upload gives its extractor.
OwnText(r) ==
    IF allowed_file(req[r].filename, ALLOWED_EXTENSIONS_PDF)
    THEN PdfTextOfFile(req[r].content)
    ELSE ImageTextOfFile(req[r].content)

\* The request's extraction is not that of the content it uploaded.
ForeignText(r) == req[r].extracted /\ req[r].text_content # OwnText(r)

\* The artifact behind the request's download link is not made from its content.
ForeignArtifact(r) ==
    /\ req[r].pc = "rendered"
    /\ req[r].download_path # "None"
    /\ results[req[r].download_path] # Artifact(OwnText(r))

HasSaved(r) == req[r].content # "none"

\* The file the request saved and has yet to read is gone or replaced.
StolenUpload(r) ==
    /\ req[r].pc = "saved"
    /\ uploads[UploadPath(req[r].filename)] # req[r].content

\* C10: uploads and artifacts are keyed by the sanitized filename with no
\* locking, so a request can extract, show or link to what another request
\* stored, or lose its upload to another request's removal.  It happens only
\* between requests that collide on a name: a foreign extraction, or an upload
\* removed or replaced before it is read, needs another request that saved
\* under the same sanitized filename, and a foreign or missing own artifact needs a foreign extraction
\* or another request that exported under the same output name.
C10_FilenameKeyedRace ==
    \A r \in Requests :
        /\ ForeignText(r) =>
              \E o \in Requests \ {r} :
                  /\ HasSaved(o)
                  /\ secure_filename(req[o].filename) = secure_filename(req[r].filename)
        /\ StolenUpload(r) =>
              \E o \in Requests \ {r} :
                  /\ HasSaved(o)
                  /\ secure_filename(req[o].filename) = secure_filename(req[r].filename)
        /\ ForeignArtifact(r) =>
              \/ ForeignText(r)
              \/ \E o \in Requests \ {r} :
                    req[o].download_path = req[r].download_path

\* C10 witness: both requests were rendered; r1 uploaded content A, yet its
\* view shows the text of r2's content B, saved under the same sanitized
\* filename, and its download link leads to an artifact made from B.
C10_Witness ==
    /\ req["r1"].pc = "rendered"
    /\ req["r2"].pc = "rendered"
    /\ req["r1"].content = "A"
    /\ req["r2"].content = "B"
    /\ req["r1"].filename # req["r2"].filename
    /\ req["r1"].text_content = TextOf("B")
    /\ ForeignArtifact("r1")

(***************************************************************************)
(* Properties of index (POST): what runs after the extraction.             *)
(***************************************************************************)
Supported(f) == f.ext \in ALLOWED_EXTENSIONS_PDF \cup ALLOWED_EXTENSIONS_IMAGES

Exporters == {"save_as_pdf", "save_as_docx"}

\* What holds of every request, in every state.
PipelineGating ==
    \A r \in Requests :
        LET q == req[r]
        IN  \* the analysers and the exporter run only on a supported file whose
            \* extracted text is not blank
            /\ q.invoked # {} =>
                  (Supported(q.filename) /\ q.extracted /\ ~IsBlank(q.text_content))
            \* an unsupported type or a blank extraction: removal, then redirect
            /\ (q.pc \in {"remove", "redirected"} /\ HasSaved(r)) =>
                  /\ ~Supported(q.filename) \/ (q.extracted /\ IsBlank(q.text_content))
                  /\ q.invoked = {}
                  /\ q.exported = "not called"
                  /\ q.download_path = "None"
            /\ (q.pc = "redirected" /\ HasSaved(r)) => q.removal # "not tried"
            \* the result view
            /\ q.pc = "rendered" =>
                  /\ {"generate_summary", "get_sentiment"} \subseteq q.invoked
                  /\ q.invoked \cap Exporters =
                        IF q.convert_format = "pdf" THEN {"save_as_pdf"}
                        ELSE IF q.convert_format = "docx" THEN {"save_as_docx"}
                        ELSE {}
                  /\ (q.invoked \cap Exporters = {}) = (q.exported = "not called")
            /\ q.download_path # "None" =>
                  /\ q.exported = "True"
                  /\ q.download_path = OutputName(q.filename, q.convert_format)
            /\ (q.convert_format \in {"None", "none"} \/ q.exported = "False") =>
                  q.download_path = "None"

\* The results directory changes only by an exporter that returned True.
ResultsWrittenByExporterOnly ==
    results' # results =>
        \E r \in Requests :
            /\ req[r].pc = "analyze"
            /\ req'[r].exported = "True"
            /\ results' = [results EXCEPT ![req'[r].download_path] =
                                              Artifact(req[r].text_content)]

\* C12 as claimed: the analysers and the exporter run only for a supported
\* file with non-blank extracted text; for an unsupported type or a blank
\* extraction the uploaded file is removed, nothing is written to the results
\* directory and the request redirects; a download path is shown only if the
\* chosen exporter returned True, and is None with the format absent or
\* 'none' or when the exporter returned False.
C12_GatingAsClaimed ==
    [][ /\ PipelineGating'
        /\ ResultsWrittenByExporterOnly
        /\ \A r \in Requests :
              (req[r].pc = "remove" /\ req'[r].pc # "remove") =>
                  /\ req'[r].pc = "redirected"
                  /\ results' = results
                  /\ uploads'[UploadPath(req[r].filename)] = "absent"
      ]_vars

\* C12 amended: as claimed, except that the removal is an attempt: the file
\* at the upload path is gone after the step unless os.remove raised OSError,
\* which is logged, leaves the file in place and still ends in the redirect.
C12_PipelineGating ==
    [][ /\ PipelineGating'
        /\ ResultsWrittenByExporterOnly
        /\ \A r \in Requests :
              (req[r].pc = "remove" /\ req'[r].pc # "remove") =>
                  /\ req'[r].pc = "redirected"
                  /\ results' = results
                  /\ \/ uploads'[UploadPath(req[r].filename)] = "absent"
                     \/ /\ req'[r].removal = "OSError"
                        /\ uploads' = uploads
      ]_vars

\* C12 witness: r1 uploaded a PDF whose extraction was blank: its file was
\* removed, nothing of it ran, and it was redirected; r2 uploaded an image with
\* text and asked for a DOCX: the exporter returned False, so its view has no
\* download path and the results directory is empty.
C12_Witness ==
    /\ req["r1"].pc = "redirected"
    /\ req["r1"].filename.ext = "pdf"
    /\ req["r1"].content = "blank"
    /\ req["r1"].extracted /\ IsBlank(req["r1"].text_content)
    /\ req["r1"].removal = "removed"
    /\ req["r1"].invoked = {}
    /\ req["r2"].pc = "rendered"
    /\ req["r2"].filename.ext = "png"
    /\ req["r2"].convert_format = "docx"
    /\ req["r2"].invoked = {"generate_summary", "get_sentiment", "save_as_docx"}
    /\ req["r2"].exported = "False"
    /\ req["r2"].download_path = "None"
    /\ \A n \in ResultNames : results[n] = NoArtifact

(***************************************************************************)
(* Properties of get_sentiment.                                            *)
(***************************************************************************)
SentimentReturned == op = "get_sentiment" /\ pc = "returned"

\* C8: blank text is Neutral and no scorer is invoked.  Otherwise the two
\* polarities are averaged: average >= 0.05 is Positive, <= -0.05 is Negative,
\* anything between is Neutral, so two polarities both >= 0.05 give Positive
\* and both <= -0.05 give Negative.  With the VADER analyzer None the same
\* thresholds apply to the TextBlob polarity alone and VADER is not invoked.
\* The result is Positive, Negative, Neutral or the fixed error text.
C8_SentimentClassification ==
    SentimentReturned =>
        /\ ret \in { SENTIMENT_POSITIVE, SENTIMENT_NEGATIVE, SENTIMENT_NEUTRAL,
                     SENTIMENT_ERROR_TEXT }
        /\ IsBlank(text) => (ret = SENTIMENT_NEUTRAL /\ scorer_calls = {})
        /\ (blob_sentiment # <<>> /\ vader_compound_sentiment # <<>>) =>
              LET b == blob_sentiment[1]
                  v == vader_compound_sentiment[1]
              IN  /\ analyzer # "None"
                  /\ b + v >= 2 * SENTIMENT_THRESHOLD => ret = SENTIMENT_POSITIVE
                  /\ b + v <= -2 * SENTIMENT_THRESHOLD => ret = SENTIMENT_NEGATIVE
                  /\ (-2 * SENTIMENT_THRESHOLD < b + v
                        /\ b + v < 2 * SENTIMENT_THRESHOLD) => ret = SENTIMENT_NEUTRAL
                  /\ (b >= SENTIMENT_THRESHOLD /\ v >= SENTIMENT_THRESHOLD) =>
                        ret = SENTIMENT_POSITIVE
                  /\ (b <= -SENTIMENT_THRESHOLD /\ v <= -SENTIMENT_THRESHOLD) =>
                        ret = SENTIMENT_NEGATIVE
        /\ (analyzer = "None" /\ ~IsBlank(text)) =>
              /\ "VADER" \notin scorer_calls
              /\ blob_sentiment # <<>> =>
                    LET b == blob_sentiment[1]
                    IN  /\ b >= SENTIMENT_THRESHOLD => ret = SENTIMENT_POSITIVE
                        /\ b <= -SENTIMENT_THRESHOLD => ret = SENTIMENT_NEGATIVE
                        /\ (-SENTIMENT_THRESHOLD < b /\ b < SENTIMENT_THRESHOLD) =>
                              ret = SENTIMENT_NEUTRAL
        /\ (analyzer # "None" /\ ~IsBlank(text) /\ ret # SENTIMENT_ERROR_TEXT) =>
              scorer_calls = {"TextBlob", "VADER"}

\* C8 witness: polarities 0.06 and 0.04 average to exactly 0.05: Positive.
C8_Witness ==
    /\ SentimentReturned
    /\ blob_sentiment = <<12>>
    /\ vader_compound_sentiment = <<8>>
    /\ ret = SENTIMENT_POSITIVE

(***************************************************************************)
(* Property of the six core operations together.                           *)
(***************************************************************************)
CoreOperations ==
    { "extract_text_from_image", "extract_text_from_pdf", "generate_summary",
      "get_sentiment", "save_as_docx", "save_as_pdf" }

IsString(v) == v \in Seq(STRING)

\* A step of an operation that was called and has not returned.
OperationStep ==
    \/ PdfPage \/ PdfReturn
    \/ ImgPilBranch \/ ImgPreprocessBranch \/ ImgExcept
    \/ SummarizeChunk \/ SummaryReturn

\* C4: always completes.  Whatever external calls succeed or raise, no
\* exception leaves a core operation; an operation that was called can always
\* take its next step, its loops are bounded by the pages and the chunks, and
\* it returns a string, or a boolean for the two exporters.
C4_AlwaysCompletes ==
    /\ pc # "raised"
    /\ op \in CoreOperations \cup {"none"}
    /\ pc \notin {"idle", "returned"} =>
          /\ op \in CoreOperations
          /\ ENABLED OperationStep
          /\ page_num <= num_pages
          /\ Len(chunk_log) <= Len(char_chunks)
    /\ pc = "returned" =>
          IF op \in {"save_as_docx", "save_as_pdf"}
          THEN ret \in BOOLEAN
          ELSE op \in CoreOperations /\ IsString(ret)

\* C4 witness: both OCR attempts on an image raised, and the call still
\* returned a string.
C4_Witness ==
    /\ ImgReturned
    /\ ocr_calls = <<PrimaryPreprocessedCall, FallbackCall>>
    /\ first_exc = "RuntimeError"
    /\ ret = IMAGE_ERROR_TEXT

Next ==
    \/ ExtractTextFromPdf
    \/ ExtractTextFromImage
    \/ GenerateSummary
    \/ GetSentiment
    \/ SaveAsDocx
    \/ SaveAsPdf
    \/ CallerResumes

Spec == Init /\ [][Next]_vars

====
